---- MODULE Spec2Model ----
(***************************************************************************)
(* The review pipeline of the Code Review Agent (src/src/agent.py) with    *)
(* its static engines (src/src/code_analyzer.py, security_scanner.py) and  *)
(* its callers (src/main.py, src/src/web_interface.py).                    *)
(*                                                                         *)
(* Python values are modelled as follows.                                  *)
(*  - A dict key that may be absent is a sequence: <<>> (absent) or <<v>>. *)
(*  - A file's text is abstracted to the findings the engines compute      *)
(*    from it (see Contents).                                              *)
(*  - A string returned by the AI service is abstracted to what            *)
(*    _parse_ai_response looks at (see AIOutcomes).                        *)
(*  - Every issue carries a history field "engine" naming the engine that  *)
(*    produced it; the program never reads it.                             *)
(*                                                                         *)
(* Specifications:                                                         *)
(*  - Spec, LiveSpec: one call of review_code;                             *)
(*  - CallerSpec: review_code on one file, stored or called again;         *)
(*  - AnalyzerSpec: the structural pass of the CodeAnalyzer on one node;   *)
(*  - WebSpec: the scan threads and the result handlers of WebInterface.   *)
(***************************************************************************)
EXTENDS Integers, Sequences, FiniteSets, TLC

\* Largest number of files the reviewed path holds.
MaxFiles == 2

None == <<>>
Some(v) == <<v>>

\* The three counters of _get_severity_breakdown's initial dict.
Severities == {"HIGH", "MEDIUM", "LOW"}

Engines == <<"quality_static", "quality_ai", "security_static", "security_ai", "performance">>

RECURSIVE SumSeq(_)
SumSeq(s) == IF s = <<>> THEN 0 ELSE Head(s) + SumSeq(Tail(s))

RECURSIVE Flatten(_)
Flatten(ss) == IF ss = <<>> THEN <<>> ELSE Head(ss) \o Flatten(Tail(ss))

----------------------------------------------------------------------------
(* Issues *)

\* A dict issue with the four keys type, severity, message and source;
\* "absent" stands for a missing key.  line, column and file_path are
\* what issue.get(key) gives: None for a missing key or a None value,
\* Some(v) for the value v.
Issue(type, severity, message, source, engine) ==
    [is_dict |-> TRUE, type |-> type, severity |-> severity, message |-> message,
     line |-> None, column |-> None, file_path |-> None,
     source |-> source, engine |-> engine]

\* The line of a finding whose place the abstraction of the text does not
\* keep (lines of a text count from 1).
Somewhere == Some(0)

\* CodeAnalyzer._issue_to_dict of a CodeIssue: quality and performance
\* issues of the analyzer, with the file_path the engine was called with.
CodeIssue(type, severity, message, line, column, file_path, engine) ==
    [Issue(type, severity, message, "static_analysis", engine)
        EXCEPT !.line = line, !.column = column, !.file_path = Some(file_path)]

\* SecurityScanner._issue_to_dict of a SecurityIssue.
SecurityIssue(severity, file_path) ==
    [Issue("security", severity, "pattern", "security_scanner", "security_static")
        EXCEPT !.line = Somewhere, !.column = None, !.file_path = Some(file_path)]

----------------------------------------------------------------------------
(* Paths.  A path is the sequence of its components, and a component is   *)
(* its stem and its suffix ("" for none).  An exclude pattern is a         *)
(* sequence of component patterns in which "*" stands for any stem or any  *)
(* suffix: node_modules/* is <<Name("node_modules", ""), Name("*", "*")>>. *)

Name(stem, suffix) == [stem |-> stem, suffix |-> suffix]

\* fnmatch of one component against one component of a pattern.
MatchName(name, pattern) ==
    /\ pattern.stem = "*" \/ pattern.stem = name.stem
    /\ pattern.suffix = "*" \/ pattern.suffix = name.suffix

\* PurePath.match with a relative pattern: the pattern's components are
\* matched against the last components of the path.
match(file_path, pattern) ==
    /\ Len(pattern) <= Len(file_path)
    /\ \A k \in 1..Len(pattern) :
          MatchName(file_path[Len(file_path) - Len(pattern) + k], pattern[k])

\* file_path.suffix.lower(); the suffixes of the model are lower case.
Suffix(file_path) == file_path[Len(file_path)].suffix

\* The list of _should_review_file and the table of _get_language.
ext_to_lang ==
    [e \in {".py", ".js", ".java", ".cpp", ".go", ".rs"} |->
        CASE e = ".py" -> "python" [] e = ".js" -> "javascript"
          [] e = ".java" -> "java" [] e = ".cpp" -> "cpp"
          [] e = ".go" -> "go" [] e = ".rs" -> "rust"]

\* _get_language
_get_language(file_path) ==
    IF Suffix(file_path) \in DOMAIN ext_to_lang
    THEN ext_to_lang[Suffix(file_path)]
    ELSE "unknown"

----------------------------------------------------------------------------
(* Files: a path and the text under it, the text abstracted to what the    *)
(* engines find in it.                                                     *)
(*   path        the file's path                                           *)
(*   readable    open()/read() with utf-8 succeeds                         *)
(*   syntax_ok   ast.parse(content) succeeds                               *)
(*   syntax_error  lineno and offset of the SyntaxError it raises otherwise *)
(*   structural  severities of the file-length/function/class findings     *)
(*   patterns    severities of the language's regex findings (non-python)  *)
(*   long_lines, trailing   number of lines > 120 chars / with trailing ws *)
(*   security    severities of the scanner's pattern matches               *)
(*   performance number of matches of the performance patterns             *)

\* The lineno and offset of a SyntaxError; of no error when the text parses
\* or is never parsed.
SyntaxErrorAt(lineno, offset) == [lineno |-> lineno, offset |-> offset]
NoSyntaxError == SyntaxErrorAt(None, None)

Unreadable ==
    [path |-> <<Name("src", ""), Name("blob", ".py")>>,
     readable |-> FALSE, syntax_ok |-> FALSE,
     structural |-> <<>>, patterns |-> <<>>, long_lines |-> 0, trailing |-> 0,
     security |-> <<>>, performance |-> 0,
     syntax_error |-> NoSyntaxError]

\* Python text that does not parse, with a long line, a hardcoded password
\* and a wildcard import.
Malformed ==
    [path |-> <<Name("src", ""), Name("broken", ".py")>>,
     readable |-> TRUE, syntax_ok |-> FALSE,
     structural |-> <<"MEDIUM">>, patterns |-> <<>>, long_lines |-> 1, trailing |-> 0,
     security |-> <<"HIGH">>, performance |-> 1,
     syntax_error |-> SyntaxErrorAt(Some(3), Some(7))]

\* Python text that parses and triggers no rule.
Clean ==
    [path |-> <<Name("src", ""), Name("clean", ".py")>>,
     readable |-> TRUE, syntax_ok |-> TRUE,
     structural |-> <<>>, patterns |-> <<>>, long_lines |-> 0, trailing |-> 0,
     security |-> <<>>, performance |-> 0,
     syntax_error |-> NoSyntaxError]

\* A JavaScript bundle whose bytes are not UTF-8.
Script ==
    [path |-> <<Name("web", ""), Name("app", ".js")>>,
     readable |-> FALSE, syntax_ok |-> FALSE,
     structural |-> <<>>, patterns |-> <<>>, long_lines |-> 0, trailing |-> 0,
     security |-> <<>>, performance |-> 0,
     syntax_error |-> NoSyntaxError]

\* A text file that is no source code.
Notes ==
    [path |-> <<Name("README", ".md")>>,
     readable |-> TRUE, syntax_ok |-> FALSE,
     structural |-> <<>>, patterns |-> <<>>, long_lines |-> 1, trailing |-> 0,
     security |-> <<>>, performance |-> 0,
     syntax_error |-> NoSyntaxError]

\* Python text of a dependency, under node_modules.
Vendored ==
    [path |-> <<Name("node_modules", ""), Name("setup", ".py")>>,
     readable |-> TRUE, syntax_ok |-> TRUE,
     structural |-> <<"MEDIUM">>, patterns |-> <<>>, long_lines |-> 0, trailing |-> 0,
     security |-> <<>>, performance |-> 0,
     syntax_error |-> NoSyntaxError]

Contents == {Unreadable, Malformed, Clean, Script, Notes, Vendored}

----------------------------------------------------------------------------
(* The AI service.  An outcome of self.ollama_llm(prompt) is an exception  *)
(* or a string; of the string the model keeps                              *)
(*   empty         the string has no characters                            *)
(*   starts_brace  response.strip().startswith('{')                        *)
(*   valid_json    json.loads(response) succeeds (then it is a dict)       *)
(*   has_issues    the dict has the key 'issues'                           *)
(*   issues        its value: is_list tells a list from any other value    *)
(*   length        len(response)                                           *)

PyList(items) == [is_list |-> TRUE, items |-> items]
NotAList == [is_list |-> FALSE, items |-> <<>>]

Text(length, starts_brace, valid_json, has_issues, issues) ==
    [empty |-> length = 0, length |-> length,
     starts_brace |-> starts_brace, valid_json |-> valid_json,
     has_issues |-> has_issues, issues |-> issues]

EmptyString == Text(0, FALSE, FALSE, FALSE, NotAList)
Prose == Text(250, FALSE, FALSE, FALSE, NotAList)
BrokenJson == Text(40, TRUE, FALSE, FALSE, NotAList)
JsonObject(issues) == Text(120, TRUE, TRUE, TRUE, issues)
JsonNoIssues == Text(2, TRUE, TRUE, FALSE, NotAList)

\* Elements of an 'issues' array: what the service chose to send.
AIElement(is_dict, severity, message, source) ==
    [is_dict |-> is_dict, type |-> "absent", severity |-> severity, message |-> message,
     line |-> None, column |-> None, file_path |-> None, source |-> source]

AIWellFormed == AIElement(TRUE, "HIGH", "advice", "AI")
AICritical == AIElement(TRUE, "CRITICAL", "advice", "absent")
AINotADict == AIElement(FALSE, "absent", "absent", "absent")

Returned(response) == [raises |-> FALSE, response |-> response]
Raised == [raises |-> TRUE, response |-> EmptyString]

AIOutcomes ==
    { Raised,
      Returned(Prose),
      Returned(BrokenJson),
      Returned(JsonNoIssues),
      Returned(JsonObject(PyList(<<AIWellFormed>>))),
      Returned(JsonObject(PyList(<<AICritical>>))),
      Returned(JsonObject(PyList(<<AINotADict>>))),
      Returned(JsonObject(NotAList)) }

----------------------------------------------------------------------------
(* CodeAnalyzer *)

Repeat(n, v) == [i \in 1..n |-> v]

\* A quality issue of a finding; its message names the pass that found it.
QualityIssue(severity, message, file_path) ==
    CodeIssue("quality", severity, message, Somewhere, None, file_path, "quality_static")

\* One quality issue per finding, in the order found.
QualityIssues(severities, message, file_path) ==
    [i \in 1..Len(severities) |-> QualityIssue(severities[i], message, file_path)]

\* The issue of the except SyntaxError branch: line=e.lineno, column=e.offset.
SyntaxErrorIssue(e, file_path) ==
    CodeIssue("quality", "HIGH", "Syntax error", e.lineno, e.offset, file_path,
              "quality_static")

\* _analyze_python with the structural pass run on a text that did not parse.
_analyze_python_keeping_structural(content, file_path) ==
    IF content.syntax_ok
    THEN QualityIssues(content.structural, "structural", file_path)
    ELSE << SyntaxErrorIssue(content.syntax_error, file_path) >>
            \o QualityIssues(content.structural, "structural", file_path)

\* _analyze_python: the structural findings (file length, functions,
\* classes) of a text ast.parse accepts, or the one issue of the except
\* SyntaxError branch.
_analyze_python(content, file_path) ==
    IF content.syntax_ok
    THEN QualityIssues(content.structural, "structural", file_path)
    ELSE << SyntaxErrorIssue(content.syntax_error, file_path) >>

\* _analyze_javascript .. _analyze_rust: one issue per regex match.
_analyze_patterns(content, file_path) ==
    QualityIssues(content.patterns, "pattern", file_path)

\* _analyze_general: long lines, then trailing whitespace, all LOW.
_analyze_general(content, file_path) ==
    Repeat(content.long_lines, QualityIssue("LOW", "long line", file_path))
        \o Repeat(content.trailing, QualityIssue("LOW", "trailing whitespace", file_path))

\* CodeAnalyzer.analyze
analyze(content, language, file_path) ==
    (IF language = "python" THEN _analyze_python(content, file_path)
     ELSE IF language \in {"javascript", "java", "cpp", "go", "rust"}
          THEN _analyze_patterns(content, file_path)
          ELSE <<>>)
        \o _analyze_general(content, file_path)

PerformanceIssue(severity, file_path) ==
    CodeIssue("performance", severity, "finding", Somewhere, None, file_path, "performance")

\* CodeAnalyzer.analyze_performance: LOW for python, MEDIUM for javascript.
analyze_performance(content, language, file_path) ==
    IF language = "python"
    THEN Repeat(content.performance, PerformanceIssue("LOW", file_path))
    ELSE IF language = "javascript"
         THEN Repeat(content.performance, PerformanceIssue("MEDIUM", file_path))
         ELSE <<>>

\* SecurityScanner.scan
scan(content, language, file_path) ==
    [i \in 1..Len(content.security) |-> SecurityIssue(content.security[i], file_path)]

----------------------------------------------------------------------------
(* CodeReviewAgent: AI augmentation *)

\* _call_ollama: the response, or "" when the call raised.
_call_ollama(outcome) ==
    IF outcome.raises THEN EmptyString ELSE outcome.response

\* The element of a parsed 'issues' array, tagged with the engine it came from.
FromAI(element, analysis_type) ==
    [is_dict |-> element.is_dict, type |-> element.type,
     severity |-> element.severity, message |-> element.message,
     line |-> element.line, column |-> element.column,
     file_path |-> element.file_path, source |-> element.source,
     engine |-> IF analysis_type = "quality" THEN "quality_ai" ELSE "security_ai"]

\* response[:n]: the first n characters of the response, all of it when
\* it has fewer.
Slice(response, n) ==
    [of |-> "response", chars |-> IF response.length < n THEN response.length ELSE n]

\* _parse_ai_response with the whole response as the fallback's message.
_parse_ai_response_whole_message(response, analysis_type) ==
    IF response.starts_brace
    THEN IF response.valid_json
         THEN IF response.has_issues
              THEN [is_list |-> response.issues.is_list,
                    items |-> [i \in 1..Len(response.issues.items) |->
                                  FromAI(response.issues.items[i], analysis_type)]]
              ELSE PyList(<<>>)
         ELSE PyList(<<>>)
    ELSE PyList(<< Issue(analysis_type, "MEDIUM", Slice(response, response.length), "AI",
                         IF analysis_type = "quality" THEN "quality_ai" ELSE "security_ai") >>)

\* _parse_ai_response: data.get('issues', []) of a JSON object, [] when
\* json.loads raises, and one MEDIUM issue for every other string.
_parse_ai_response(response, analysis_type) ==
    IF response.starts_brace
    THEN IF response.valid_json
         THEN IF response.has_issues
              THEN [is_list |-> response.issues.is_list,
                    items |-> [i \in 1..Len(response.issues.items) |->
                                  FromAI(response.issues.items[i], analysis_type)]]
              ELSE PyList(<<>>)
         ELSE PyList(<<>>)
    ELSE PyList(<< Issue(analysis_type, "MEDIUM", Slice(response, 200), "AI",
                         IF analysis_type = "quality" THEN "quality_ai" ELSE "security_ai") >>)

\* The concatenation with its operands exchanged.
ConcatAIFirst(static_issues, ai_issues) ==
    IF ai_issues.is_list THEN ai_issues.items \o static_issues ELSE <<>>

\* static_issues + ai_issues inside the try: a TypeError when ai_issues is
\* not a list, and then the except branch returns [].
Concat(static_issues, ai_issues) ==
    IF ai_issues.is_list THEN static_issues \o ai_issues.items ELSE <<>>

\* _analyze_code_quality; engine_raises: code_analyzer.analyze raised.
_analyze_code_quality(content, language, file_path, engine_raises, outcome) ==
    IF engine_raises
    THEN <<>>
    ELSE Concat(analyze(content, language, file_path),
                _parse_ai_response(_call_ollama(outcome), "quality"))

\* _analyze_security; engine_raises: security_scanner.scan raised.
_analyze_security(content, language, file_path, engine_raises, outcome) ==
    IF engine_raises
    THEN <<>>
    ELSE Concat(scan(content, language, file_path),
                _parse_ai_response(_call_ollama(outcome), "security"))

\* _analyze_performance; engine_raises: analyze_performance raised.
_analyze_performance(content, language, file_path, engine_raises) ==
    IF engine_raises THEN <<>> ELSE analyze_performance(content, language, file_path)

----------------------------------------------------------------------------
(* CodeReviewAgent: one file *)

\* The dict of the except branch of _review_file.
ErrorResult(file_path) ==
    [file_path |-> file_path, error |-> Some("read error"),
     keys |-> {"file_path", "error", "issues"},
     issues |-> <<>>, security_issues |-> <<>>, quality_issues |-> <<>>,
     performance_issues |-> <<>>]

\* FileResult without line 319: the security issues reach "issues" but not
\* "security_issues".
FileResultDroppingSecurityList(file_path, quality_issues, security_issues, performance_issues) ==
    [file_path |-> file_path, error |-> None,
     keys |-> {"file_path", "language", "size", "lines", "issues", "security_issues",
               "quality_issues", "performance_issues", "suggestions"},
     issues |-> quality_issues \o security_issues \o performance_issues,
     security_issues |-> <<>>, quality_issues |-> quality_issues,
     performance_issues |-> performance_issues]

\* The dict _review_file returns for a file it could read.  "keys" are the
\* keys the dict has; a field that is not among them is never read.
FileResult(file_path, quality_issues, security_issues, performance_issues) ==
    [file_path |-> file_path, error |-> None,
     keys |-> {"file_path", "language", "size", "lines", "issues", "security_issues",
               "quality_issues", "performance_issues", "suggestions"},
     issues |-> quality_issues \o security_issues \o performance_issues,
     security_issues |-> security_issues, quality_issues |-> quality_issues,
     performance_issues |-> performance_issues]

\* What one run of _review_file meets besides the file: which engines
\* raise, and what the two AI calls come back with (NotCalled when the run
\* does not get to the call).
\* A value no outcome of the service equals: it marks a call never made.
NotCalled == [raises |-> FALSE, response |-> Text(0, FALSE, FALSE, FALSE, PyList(<<>>))]

NothingMet ==
    [quality_raises |-> FALSE, security_raises |-> FALSE, performance_raises |-> FALSE,
     quality_ai |-> NotCalled, security_ai |-> NotCalled]

Meets(content, security_enabled) ==
    IF ~content.readable
    THEN {NothingMet}
    ELSE {m \in [quality_raises : BOOLEAN, security_raises : BOOLEAN,
                 performance_raises : BOOLEAN,
                 quality_ai : AIOutcomes \cup {NotCalled},
                 security_ai : AIOutcomes \cup {NotCalled}] :
            /\ (m.quality_ai = NotCalled) = m.quality_raises
            /\ (m.security_ai = NotCalled) = (m.security_raises \/ ~security_enabled)
            /\ m.security_raises => security_enabled}

\* _review_file with the SyntaxError of ast.parse reaching its except branch.
_review_file_raising_on_syntax(file_path, content, security_enabled, m) ==
    IF ~content.readable \/ (_get_language(content.path) = "python" /\ ~content.syntax_ok)
    THEN ErrorResult(file_path)
    ELSE FileResult(file_path,
            _analyze_code_quality(content, _get_language(content.path), file_path,
                                  m.quality_raises, m.quality_ai),
            IF security_enabled
            THEN _analyze_security(content, _get_language(content.path), file_path,
                                   m.security_raises, m.security_ai)
            ELSE <<>>,
            _analyze_performance(content, _get_language(content.path), file_path,
                                 m.performance_raises))

\* _review_file
_review_file(file_path, content, security_enabled, m) ==
    IF ~content.readable
    THEN ErrorResult(file_path)
    ELSE FileResult(file_path,
            _analyze_code_quality(content, _get_language(content.path), file_path,
                                  m.quality_raises, m.quality_ai),
            IF security_enabled
            THEN _analyze_security(content, _get_language(content.path), file_path,
                                   m.security_raises, m.security_ai)
            ELSE <<>>,
            _analyze_performance(content, _get_language(content.path), file_path,
                                 m.performance_raises))

\* file_results.get(key, [])
Get(file_result, key) ==
    IF key \in file_result.keys
    THEN CASE key = "issues" -> file_result.issues
           [] key = "security_issues" -> file_result.security_issues
           [] key = "quality_issues" -> file_result.quality_issues
           [] key = "performance_issues" -> file_result.performance_issues
    ELSE <<>>

----------------------------------------------------------------------------
(* CodeReviewAgent: the summary *)

AllIssues(files) == Flatten([i \in 1..Len(files) |-> Get(files[i], "issues")])

\* issue.get("severity", "MEDIUM")
SeverityOf(issue) == IF issue.severity = "absent" THEN "MEDIUM" ELSE issue.severity

\* _get_severity_breakdown counting only the severities the dict starts with.
_get_severity_breakdown_known_only(files) ==
    LET all == AllIssues(files)
        bad == \E i \in 1..Len(all) : ~all[i].is_dict \/ all[i].severity = "unhashable"
    IN IF bad
       THEN [raises |-> TRUE, breakdown |-> [k \in Severities |-> 0]]
       ELSE [raises |-> FALSE,
             breakdown |-> [k \in Severities |->
                 Cardinality({i \in 1..Len(all) : SeverityOf(all[i]) = k})]]

\* _get_severity_breakdown: raises when an issue is no dict (no .get) or its
\* severity cannot be a dict key; otherwise counts every issue under its
\* severity, adding a key for a severity the dict does not have.
_get_severity_breakdown(files) ==
    LET all == AllIssues(files)
        bad == \E i \in 1..Len(all) : ~all[i].is_dict \/ all[i].severity = "unhashable"
        keys == Severities \cup {SeverityOf(all[i]) : i \in 1..Len(all)}
    IN IF bad
       THEN [raises |-> TRUE, breakdown |-> [k \in Severities |-> 0]]
       ELSE [raises |-> FALSE,
             breakdown |-> [k \in keys |->
                 Cardinality({i \in 1..Len(all) : SeverityOf(all[i]) = k})]]

\* _generate_summary
_generate_summary(results) ==
    [total_files |-> results.files_reviewed,
     total_issues |-> results.issues_found,
     security_issues |-> results.security_issues,
     quality_issues |-> results.quality_issues,
     performance_issues |-> results.performance_issues,
     severity_breakdown |-> _get_severity_breakdown(results.files).breakdown]

----------------------------------------------------------------------------
(* review_code *)

VARIABLES
    config,           \* the loaded configuration
    path_is_file,     \* path.is_file() of the reviewed path
    fs,               \* the files under the reviewed path, in rglob order
    pc,               \* where review_code and its caller stand
    files_to_review,  \* what _get_files_to_review returned
    position,         \* how many paths the for loop has taken
    results,          \* the session dict review_code builds and returns
    met,              \* history: what the latest _review_file met
    recent_results,   \* WebInterface.recent_results
    earlier,          \* history: what earlier runs of review_code returned
    node,             \* CodeAnalyzer: the node of the tree the walk is at
    function_issues,  \* CodeAnalyzer: the issues the walk got from that node
    threads,          \* WebInterface: the run_scan threads
    scans,            \* WebInterface: how many scans POST /api/scan started
    clock,            \* WebInterface: datetime.now(), as the number of results appended
    http_response     \* WebInterface: the latest answer to a request for one result

\* The state of the CodeAnalyzer's walk and of the web interface.
analyzer_vars == <<node, function_issues>>
web_vars == <<threads, scans, clock, http_response>>

vars == <<config, path_is_file, fs, pc, files_to_review, position, results, met,
          recent_results, earlier, analyzer_vars, web_vars>>

\* No walk under way.
NoNode == [kind |-> "none"]
AnalyzerIdle == node = NoNode /\ function_issues = None

\* The most run_scan threads alive at a time, and the most scans started.
MaxThreads == 2
MaxScans == 12

\* An answer of a handler: the request's result_id, the HTTP status, and
\* the stored dict the body was made from (None when from none).
Answer(handler, result_id, status, body) ==
    [handler |-> handler, result_id |-> result_id, status |-> status, body |-> body]

\* No request answered yet.
NoAnswer == Answer("none", None, 0, None)

\* A thread slot with no thread in it.
NoThread == [pc |-> "none", sliced |-> <<>>]
WebIdle ==
    /\ threads = [t \in 1..MaxThreads |-> NoThread]
    /\ scans = 0
    /\ clock = 0
    /\ http_response = NoAnswer

\* node_modules/*
NodeModules == <<Name("node_modules", ""), Name("*", "*")>>

\* ai_enabled is the configuration's AI-augmentation flag and
\* supported_languages is analysis.languages; agent.py reads neither, so
\* the runs of review_code depend on security_enabled alone and the two
\* configurations below give all of them.  exclude_patterns is
\* git.exclude_patterns.
Lean ==
    [security_enabled |-> FALSE, ai_enabled |-> FALSE,
     supported_languages |-> {"python"}, exclude_patterns |-> <<NodeModules>>]

Full ==
    [security_enabled |-> TRUE, ai_enabled |-> TRUE,
     supported_languages |-> {"python", "javascript"},
     exclude_patterns |-> <<NodeModules>>]

Configs == {Lean, Full}

\* The sequences of at most n different elements of S.
RECURSIVE ListsUpTo(_, _)
ListsUpTo(S, n) ==
    IF n = 0 THEN {<<>>}
    ELSE LET shorter == ListsUpTo(S, n - 1)
         IN shorter \cup
            UNION {{Append(s, x) : x \in S \ {s[i] : i \in 1..Len(s)}} :
                       s \in {t \in shorter : Len(t) = n - 1}}

\* The results dict of lines 213-222.
NewResults ==
    [timestamp |-> "review_code", id |-> None,
     files_reviewed |-> 0, issues_found |-> 0, security_issues |-> 0,
     quality_issues |-> 0, performance_issues |-> 0, files |-> <<>>,
     summary |-> None, error |-> None]

Init ==
    /\ config \in Configs
    /\ path_is_file \in BOOLEAN
    /\ fs \in ListsUpTo(Contents, MaxFiles)
    /\ path_is_file => Len(fs) = 1
    /\ pc = "discovering"
    /\ files_to_review = <<>>
    /\ position = 0
    /\ results = NewResults
    /\ met = NothingMet
    /\ recent_results = <<>>
    /\ earlier = <<>>
    /\ AnalyzerIdle
    /\ WebIdle

\* _should_review_file keeping only its extension check.
_should_review_file_by_extension(file_path, cfg) ==
    Suffix(file_path) \in DOMAIN ext_to_lang

\* _should_review_file: the extension is one of the six of the list and no
\* exclude pattern matches the path.
_should_review_file(file_path, cfg) ==
    /\ Suffix(file_path) \in DOMAIN ext_to_lang
    /\ \A k \in 1..Len(cfg.exclude_patterns) : ~match(file_path, cfg.exclude_patterns[k])

\* _get_files_to_review without its is_file branch: rglob("*") on a file
\* yields nothing.
_get_files_to_review_by_traversal(is_file, files, cfg) ==
    IF is_file
    THEN <<>>
    ELSE SelectSeq([i \in 1..Len(files) |-> i],
                   LAMBDA i : _should_review_file(files[i].path, cfg))

\* _get_files_to_review: the path itself when it is a file, the files
\* rglob("*") yields otherwise, each kept when _should_review_file accepts
\* it.  A file is named by its place in fs.
_get_files_to_review(is_file, files, cfg) ==
    IF is_file
    THEN IF _should_review_file(files[1].path, cfg) THEN <<1>> ELSE <<>>
    ELSE SelectSeq([i \in 1..Len(files) |-> i],
                   LAMBDA i : _should_review_file(files[i].path, cfg))

\* Line 227: the paths, or an exception (the path cannot be enumerated),
\* which review_code's except turns into the returned dict with "error".
Discover ==
    /\ pc = "discovering"
    /\ \E enumerable \in BOOLEAN :
          IF enumerable
          THEN /\ files_to_review' = _get_files_to_review(path_is_file, fs, config)
               /\ pc' = "reviewing"
               /\ UNCHANGED results
          ELSE /\ results' = [results EXCEPT !.error = Some("discovery")]
               /\ pc' = "done"
               /\ UNCHANGED files_to_review
    /\ UNCHANGED <<analyzer_vars, web_vars, config, path_is_file, fs, position, met, recent_results, earlier>>

\* The loop body leaving out a file whose dict has "error".
AccumulateSkippingErrors(res, file_results) ==
    IF file_results.error # None
    THEN res
    ELSE [res EXCEPT
            !.files = Append(@, file_results),
            !.files_reviewed = @ + 1,
            !.issues_found = @ + Len(Get(file_results, "issues")),
            !.security_issues = @ + Len(Get(file_results, "security_issues")),
            !.quality_issues = @ + Len(Get(file_results, "quality_issues")),
            !.performance_issues = @ + Len(Get(file_results, "performance_issues"))]

\* The loop body putting the file's dict in front of the earlier ones.
AccumulatePrepending(res, file_results) ==
    [res EXCEPT
        !.files = <<file_results>> \o @,
        !.files_reviewed = @ + 1,
        !.issues_found = @ + Len(Get(file_results, "issues")),
        !.security_issues = @ + Len(Get(file_results, "security_issues")),
        !.quality_issues = @ + Len(Get(file_results, "quality_issues")),
        !.performance_issues = @ + Len(Get(file_results, "performance_issues"))]

\* Lines 239-246: append the file's dict and add to the five counters.
Accumulate(res, file_results) ==
    [res EXCEPT
        !.files = Append(@, file_results),
        !.files_reviewed = @ + 1,
        !.issues_found = @ + Len(Get(file_results, "issues")),
        !.security_issues = @ + Len(Get(file_results, "security_issues")),
        !.quality_issues = @ + Len(Get(file_results, "quality_issues")),
        !.performance_issues = @ + Len(Get(file_results, "performance_issues"))]

\* One iteration of the for loop of review_code.
ReviewNextFile ==
    /\ pc = "reviewing"
    /\ position < Len(files_to_review)
    /\ position' = position + 1
    /\ LET file_path == files_to_review[position + 1]
       IN \E m \in Meets(fs[file_path], config.security_enabled) :
             /\ met' = m
             /\ results' = Accumulate(results,
                               _review_file(file_path, fs[file_path],
                                            config.security_enabled, m))
    /\ UNCHANGED <<analyzer_vars, web_vars, config, path_is_file, fs, pc, files_to_review, recent_results, earlier>>

\* After the loop: the summary and return, or, when _generate_summary
\* raises, the except branch: "error" is set and no "summary".
Aggregate ==
    /\ pc = "reviewing"
    /\ position = Len(files_to_review)
    /\ results' =
          IF _get_severity_breakdown(results.files).raises
          THEN [results EXCEPT !.error = Some("summary")]
          ELSE [results EXCEPT !.summary = Some(_generate_summary(results))]
    /\ pc' = "done"
    /\ UNCHANGED <<analyzer_vars, web_vars, config, path_is_file, fs, files_to_review, position, met, recent_results, earlier>>

\* self.ollama_llm(prompt) in the executor never returns: _call_ollama
\* awaits it without a timeout, and review_code with it.
AwaitUnresponsiveAI ==
    /\ pc = "reviewing"
    /\ position < Len(files_to_review)
    /\ fs[files_to_review[position + 1]].readable
    /\ pc' = "blocked"
    /\ UNCHANGED <<analyzer_vars, web_vars, config, path_is_file, fs, files_to_review, position, results, met,
                   recent_results, earlier>>

\* A KeyboardInterrupt or a cancellation reaches review_code: neither is an
\* Exception, so the except of line 255 lets it pass.  Nothing is returned,
\* and the frame of review_code is unwound: its files_to_review and its
\* results dict are held by nobody any more.
Interrupt ==
    /\ pc \in {"discovering", "reviewing"}
    /\ pc' = "interrupted"
    /\ files_to_review' = <<>>
    /\ position' = 0
    /\ results' = NewResults
    /\ met' = NothingMet
    /\ UNCHANGED <<analyzer_vars, web_vars, config, path_is_file, fs, recent_results, earlier>>

Next ==
    \/ Discover
    \/ ReviewNextFile
    \/ Aggregate
    \/ AwaitUnresponsiveAI
    \/ Interrupt

Spec == Init /\ [][Next]_vars

\* The event loop keeps running review_code while it has a step to take.
LiveSpec == Spec /\ WF_vars(Next)

----------------------------------------------------------------------------
(* The callers of review_code: the web interface, which stores what a call *)
(* returned, and a caller that calls again on the same path, nothing on    *)
(* disk and nothing in the configuration having changed.                   *)

max_recent_results == 10

\* WebInterface._store_results on the dict review_code returned to run_scan:
\* the dict gets an id and a new timestamp and is appended to
\* recent_results, which keeps its last max_recent_results entries.
_store_results ==
    /\ pc = "done"
    /\ LET stored == [results EXCEPT !.id = Some(Len(recent_results)),
                                      !.timestamp = "_store_results"]
           appended == Append(recent_results, stored)
       IN /\ results' = stored
          /\ recent_results' =
                IF Len(appended) > max_recent_results
                THEN SubSeq(appended, Len(appended) - max_recent_results + 1, Len(appended))
                ELSE appended
    /\ pc' = "stored"
    /\ UNCHANGED <<analyzer_vars, web_vars, config, path_is_file, fs, files_to_review, position, met, earlier>>

\* A second call of review_code after the first returned: a new results
\* dict, the same path, files and configuration.
ReviewAgain ==
    /\ pc = "done"
    /\ earlier = <<>>
    /\ earlier' = <<[results |-> results, met |-> met]>>
    /\ pc' = "discovering"
    /\ files_to_review' = <<>>
    /\ position' = 0
    /\ results' = NewResults
    /\ met' = NothingMet
    /\ UNCHANGED <<analyzer_vars, web_vars, config, path_is_file, fs, recent_results>>

\* The path is a single file, so that met tells what the whole run met.
CallerInit == Init /\ path_is_file

CallerNext == Next \/ _store_results \/ ReviewAgain

CallerSpec == CallerInit /\ [][CallerNext]_vars

----------------------------------------------------------------------------
(* Properties of the session *)

SessionReturned == pc = "done"
Files == results.files
NFiles == Len(results.files)
HasSummary == results.summary # None
HasError == results.error # None
DiscoveryFailed == results.error = Some("discovery")
Breakdown == results.summary[1].severity_breakdown

RECURSIVE SumValues(_, _)
SumValues(f, keys) ==
    IF keys = {} THEN 0
    ELSE LET k == CHOOSE x \in keys : TRUE
         IN f[k] + SumValues(f, keys \ {k})

IssuesIn(files) == SumSeq([i \in 1..Len(files) |-> Len(Get(files[i], "issues"))])

\* The latest file the loop reviewed, its text and its dict.
LatestPath == files_to_review[position]
LatestContent == fs[LatestPath]
LatestResult == Files[NFiles]

HasIssueFrom(file_result, engine) ==
    \E j \in 1..Len(file_result.issues) : file_result.issues[j].engine = engine

C2_IssuesFoundIsSumOfKinds ==
    results.issues_found =
        results.security_issues + results.quality_issues + results.performance_issues

\* C2 witness: a prefix holding an error result and a file whose quality
\* engine failed while its security engine found issues.
C2_Witness ==
    /\ pc = "reviewing"
    /\ NFiles = 2
    /\ Files[1].error # None
    /\ met.quality_raises
    /\ Files[2].security_issues # <<>>
    /\ results.issues_found > 0

AICallFailed(outcome) == outcome.raises
AIResponseMalformed(outcome) ==
    ~outcome.raises /\ outcome.response.starts_brace /\ ~outcome.response.valid_json

\* C3: when the AI call of a concern failed or its response was malformed
\* JSON, the file's issue list holds no issue with source AI from that
\* concern's AI step.
C3_FailedAIContributesNothing ==
    (position > 0 /\ NFiles > 0) =>
        /\ (AICallFailed(met.quality_ai) \/ AIResponseMalformed(met.quality_ai))
              => ~\E j \in 1..Len(LatestResult.issues) :
                    /\ LatestResult.issues[j].engine = "quality_ai"
                    /\ LatestResult.issues[j].source = "AI"
        /\ (AICallFailed(met.security_ai) \/ AIResponseMalformed(met.security_ai))
              => ~\E j \in 1..Len(LatestResult.issues) :
                    /\ LatestResult.issues[j].engine = "security_ai"
                    /\ LatestResult.issues[j].source = "AI"

Contains(issues, expected) ==
    \A k \in 1..Len(expected) : \E j \in 1..Len(issues) : issues[j] = expected[k]

\* C4: the issues of every static engine that did not itself fail are in
\* the file's issue list, whatever the other engines and the AI steps did.
C4_OtherEnginesKeepTheirIssues ==
    (position > 0 /\ NFiles > 0 /\ LatestContent.readable) =>
        /\ ~met.quality_raises
              => Contains(LatestResult.issues,
                          analyze(LatestContent, _get_language(LatestContent.path), LatestPath))
        /\ (config.security_enabled /\ ~met.security_raises)
              => Contains(LatestResult.issues,
                          scan(LatestContent, _get_language(LatestContent.path), LatestPath))
        /\ ~met.performance_raises
              => Contains(LatestResult.issues,
                          analyze_performance(LatestContent, _get_language(LatestContent.path), LatestPath))

ReadableFiles == {i \in 1..NFiles : fs[files_to_review[i]].readable}

\* C5: a file that cannot be read yields a result with error and an empty
\* issues list and adds nothing to any counter, and the loop goes on: after
\* a successful discovery the returned session has one result per selected
\* file, files_reviewed is their number, and every readable file was analyzed.
C5_UnreadableFileIsContained ==
    /\ \A i \in 1..NFiles :
          IF fs[files_to_review[i]].readable
          THEN Files[i].error = None /\ "language" \in Files[i].keys
          ELSE /\ Files[i].error # None
               /\ Get(Files[i], "issues") = <<>>
               /\ Get(Files[i], "security_issues") = <<>>
               /\ Get(Files[i], "quality_issues") = <<>>
               /\ Get(Files[i], "performance_issues") = <<>>
    /\ results.issues_found =
          SumSeq([i \in 1..NFiles |->
                     IF i \in ReadableFiles THEN Len(Files[i].issues) ELSE 0])
    /\ (SessionReturned /\ ~DiscoveryFailed)
          => /\ results.files_reviewed = Len(files_to_review)
             /\ NFiles = Len(files_to_review)

\* C5 witness: the returned session of a run whose first file was
\* unreadable and whose second file was analyzed and has issues.
C5_Witness ==
    /\ SessionReturned
    /\ Len(files_to_review) = 2
    /\ ~fs[files_to_review[1]].readable
    /\ results.files_reviewed = 2
    /\ Files[1].error # None
    /\ Files[2].error = None
    /\ Files[2].issues # <<>>

Unparsable(content) ==
    content.readable /\ _get_language(content.path) = "python" /\ ~content.syntax_ok

AllReadable == \A i \in 1..Len(fs) : fs[i].readable

C7_OnlyDiscoveryFailsTheSession ==
    (SessionReturned /\ ~DiscoveryFailed) => (HasSummary /\ ~HasError)

Rank(engine) == CHOOSE r \in 1..Len(Engines) : Engines[r] = engine

\* What a concern's list is when the concern as a whole did not fail.
ConcernIssues(static_issues, outcome, analysis_type) ==
    static_issues \o _parse_ai_response(_call_ollama(outcome), analysis_type).items

\* C8: in every file result issues is quality_issues, then security_issues,
\* then performance_issues, no issue of a later engine (in the order static
\* quality, AI quality, static security, AI security, performance) precedes
\* one of an earlier engine, and each concern's list is empty or its static
\* issues followed by its AI issues.
C8_MergeOrder ==
    /\ \A i \in 1..NFiles :
          /\ Files[i].issues =
                Files[i].quality_issues \o Files[i].security_issues
                    \o Files[i].performance_issues
          /\ \A j, k \in 1..Len(Files[i].issues) :
                j < k => Rank(Files[i].issues[j].engine) <= Rank(Files[i].issues[k].engine)
    /\ (position > 0 /\ NFiles > 0 /\ LatestContent.readable) =>
          /\ LatestResult.quality_issues \in
                {<<>>, ConcernIssues(analyze(LatestContent, _get_language(LatestContent.path), LatestPath),
                                     met.quality_ai, "quality")}
          /\ LatestResult.security_issues \in
                {<<>>, ConcernIssues(scan(LatestContent, _get_language(LatestContent.path), LatestPath),
                                     met.security_ai, "security")}
          /\ LatestResult.performance_issues \in
                {<<>>, analyze_performance(LatestContent, _get_language(LatestContent.path), LatestPath)}

\* C8 witness: a file result with issues of all five engines.
C8_Witness ==
    \E i \in 1..NFiles :
        \A r \in 1..Len(Engines) : HasIssueFrom(Files[i], Engines[r])

CountSeverity(files, severity) ==
    Cardinality({j \in 1..Len(AllIssues(files)) : AllIssues(files)[j].severity = severity})

\* C9: the severity_breakdown of a summary has exactly the keys HIGH, MEDIUM
\* and LOW, each with the number of the session's issues of that severity,
\* and every issue is counted under one of them.
C9_BreakdownHasExactlyThreeKeys ==
    HasSummary =>
        /\ DOMAIN Breakdown = Severities
        /\ \A k \in Severities : Breakdown[k] = CountSeverity(Files, k)
        /\ \A j \in 1..Len(AllIssues(Files)) : AllIssues(Files)[j].severity \in Severities

\* C10: with AI augmentation disabled in the configuration no issue of any
\* file result has source AI.
C10_NoAIIssuesWhenDisabled ==
    ~config.ai_enabled =>
        \A i \in 1..NFiles : \A j \in 1..Len(Files[i].issues) :
            Files[i].issues[j].source # "AI"

----------------------------------------------------------------------------
(* Counters, order and shape of the session *)

\* "absent" when the issue has no such key or is no dict.
CountType(files, type) ==
    Cardinality({j \in 1..Len(AllIssues(files)) : AllIssues(files)[j].type = type})

\* C11: each per-kind counter of the session is the number of issues of
\* that type across the files: quality_issues counts the issues of type
\* quality, security_issues those of type security, performance_issues those
\* of type performance.
C11_CountersCountIssuesByType ==
    /\ results.quality_issues = CountType(Files, "quality")
    /\ results.security_issues = CountType(Files, "security")
    /\ results.performance_issues = CountType(Files, "performance")

SameStaticBehaviour(m1, m2, failed1, failed2) ==
    /\ m1.quality_raises = m2.quality_raises
    /\ m1.security_raises = m2.security_raises
    /\ m1.performance_raises = m2.performance_raises
    /\ failed1 = failed2

\* C13: with AI augmentation disabled, a second run of review_code over the
\* same path, with the same file contents and rule tables, returns the same
\* files sequence as the first: the same file order and per file the same
\* issues in the same order.
C13_RerunGivesSameFiles ==
    (/\ earlier # <<>>
     /\ SessionReturned
     /\ ~config.ai_enabled
     /\ SameStaticBehaviour(earlier[1].met, met,
                            earlier[1].results.error = Some("discovery"),
                            DiscoveryFailed))
        => results.files = earlier[1].results.files

----------------------------------------------------------------------------
(* Interruption and blocking *)

\* C14: when an interrupt or a cancellation reaches review_code after some
\* files have been processed, review_code returns: it takes no further file
\* and hands back the session accumulated so far, unchanged, with
\* files_reviewed the number of files completed.
C14_InterruptReturnsPartialSession ==
    [][(Interrupt /\ position > 0)
          => /\ pc' = "done"
             /\ results' = results
             /\ results'.files_reviewed = position]_vars

\* C15: an AI call that never responds does not block the run for ever:
\* every run of review_code that is not interrupted eventually returns a
\* session.
C15_ReviewEventuallyReturns == <>(pc \in {"done", "stored", "interrupted"})

----------------------------------------------------------------------------
(* File selection *)

\* _get_files_to_review has returned.
Discovered == pc \in {"reviewing", "blocked", "done", "stored"} /\ ~DiscoveryFailed

\* The extensions of the configured languages.
Extensions(languages) == {e \in DOMAIN ext_to_lang : ext_to_lang[e] \in languages}

Excluded(file_path) ==
    \E k \in 1..Len(config.exclude_patterns) : match(file_path, config.exclude_patterns[k])

\* The files of the session, as places in fs.
PathsIn(files) == {files[i].file_path : i \in 1..Len(files)}

\* C16: with S the configured set of supported extensions, the files
\* selected under a directory, and the files of the session returned for it,
\* are exactly the files under it whose extension is in S and which match no
\* exclude pattern: none outside S appears and none inside S is dropped.
C16_ExactlyTheConfiguredExtensions ==
    LET wanted == {i \in 1..Len(fs) :
                      /\ Suffix(fs[i].path) \in Extensions(config.supported_languages)
                      /\ ~Excluded(fs[i].path)}
    IN (Discovered /\ ~path_is_file) =>
          /\ {files_to_review[i] : i \in 1..Len(files_to_review)} = wanted
          /\ SessionReturned => PathsIn(Files) = wanted

\* C17: a file whose path matches an exclude pattern of the configuration is
\* never selected and never appears in files, whether the reviewed path is a
\* directory that holds it or the file itself, and whatever its extension.
C17_ExcludedFilesNeverAppear ==
    /\ \A i \in 1..Len(files_to_review) : ~Excluded(fs[files_to_review[i]].path)
    /\ \A i \in 1..NFiles : ~Excluded(fs[Files[i].file_path].path)

\* C17 witness: a returned session for a path that holds a file with a
\* supported extension under node_modules, from which that file is missing:
\* once as the reviewed path itself, once next to a file that was reviewed.
C17_Witness ==
    /\ SessionReturned /\ ~DiscoveryFailed
    /\ \E i \in 1..Len(fs) :
          /\ Excluded(fs[i].path)
          /\ Suffix(fs[i].path) \in DOMAIN ext_to_lang
          /\ i \notin PathsIn(Files)
    /\ path_is_file \/ NFiles = 1

\* C18 as stated: when the reviewed path is a single file whose extension is
\* in the supported set, the selector returns the one-element sequence of
\* that path and the returned session has files_reviewed = 1.
C18_SupportedFileIsItsOwnResult ==
    (Discovered /\ path_is_file
       /\ Suffix(fs[1].path) \in Extensions(config.supported_languages))
        => /\ files_to_review = <<1>>
           /\ SessionReturned => results.files_reviewed = 1

\* C18 amended: when the reviewed path is a single file whose extension is
\* in the supported set and which matches no exclude pattern, the selector
\* returns the one-element sequence of that path and the returned session
\* has files_reviewed = 1; a single file that matches an exclude pattern
\* gives the empty sequence and files_reviewed = 0.
C18_SupportedFileNotExcludedIsItsOwnResult ==
    (Discovered /\ path_is_file
       /\ Suffix(fs[1].path) \in Extensions(config.supported_languages))
        => IF Excluded(fs[1].path)
           THEN /\ files_to_review = <<>>
                /\ SessionReturned => results.files_reviewed = 0
           ELSE /\ files_to_review = <<1>>
                /\ SessionReturned => results.files_reviewed = 1 /\ Files[1].file_path = 1

\* C18 witness: the returned session of a run on one python file that no
\* pattern excludes, with that file reviewed.
C18_Witness ==
    /\ SessionReturned /\ ~DiscoveryFailed
    /\ path_is_file
    /\ Suffix(fs[1].path) \in Extensions(config.supported_languages)
    /\ ~Excluded(fs[1].path)
    /\ files_to_review = <<1>>
    /\ results.files_reviewed = 1
    /\ Files[1].error = None

----------------------------------------------------------------------------
(* The session after review_code returned *)

\* C19: once review_code has returned the session, no later step of the
\* program changes any of its fields, for as long as that session is held.
C19_ReturnedSessionIsNeverChanged ==
    [][(pc \in {"done", "stored"} /\ pc' \in {"done", "stored"})
          => (results' = results)]_vars

\* C20: every entry of files, that of a file that failed included, has the
\* keys file_path, language, size, lines and issues.
C20_EveryFileResultHasAllFields ==
    \A i \in 1..NFiles :
        {"file_path", "language", "size", "lines", "issues"} \subseteq Files[i].keys

\* C21: every issue of every file result, whatever engine produced it,
\* carries a file_path equal to the file_path of the file result holding it.
C21_EveryIssueCarriesItsFilePath ==
    \A i \in 1..NFiles :
        \A j \in 1..Len(Get(Files[i], "issues")) :
            Get(Files[i], "issues")[j].file_path = Some(Files[i].file_path)

CountMessage(issues, message) ==
    Cardinality({j \in 1..Len(issues) : issues[j].message = message})

\* The latest file reviewed is python text that does not parse, and the
\* quality engine ran on it to the end.
MalformedAnalyzed ==
    /\ position > 0
    /\ LatestContent.readable
    /\ _get_language(LatestContent.path) = "python"
    /\ ~LatestContent.syntax_ok
    /\ ~met.quality_raises

\* C22: on malformed source of a structurally parsed language the quality
\* engine emits exactly one HIGH issue, which carries the line and column
\* the parser reported, no structural issue, and one issue for every long
\* line and every line with trailing whitespace of the content.
C22_MalformedSourceGivesOneHighIssue ==
    MalformedAnalyzed =>
        LET issues == analyze(LatestContent, _get_language(LatestContent.path), LatestPath)
            high == SelectSeq(issues, LAMBDA issue : issue.severity = "HIGH")
        IN /\ Len(high) = 1
           /\ high[1].message = "Syntax error"
           /\ high[1].line = LatestContent.syntax_error.lineno
           /\ high[1].column = LatestContent.syntax_error.offset
           /\ CountMessage(issues, "structural") = 0
           /\ CountMessage(issues, "long line") = LatestContent.long_lines
           /\ CountMessage(issues, "trailing whitespace") = LatestContent.trailing
           /\ Len(issues) = 1 + LatestContent.long_lines + LatestContent.trailing

\* C22 witness: the quality engine ran on malformed python text that has a
\* long line and whose functions the structural pass would have flagged,
\* and the parser reported a line and a column.
C22_Witness ==
    /\ MalformedAnalyzed
    /\ LatestContent.long_lines > 0
    /\ LatestContent.structural # <<>>
    /\ LatestContent.syntax_error.lineno # None
    /\ LatestContent.syntax_error.offset # None
    /\ NFiles > 0 /\ LatestResult.error = None

\* The responses the latest run of _review_file parsed, each with the
\* analysis type it was parsed for.
ParsedResponses ==
    IF position = 0 THEN {}
    ELSE {<<_call_ollama(m), "quality">> : m \in {met.quality_ai} \ {NotCalled}}
           \cup {<<_call_ollama(m), "security">> : m \in {met.security_ai} \ {NotCalled}}

IsJsonObject(response) == response.starts_brace /\ response.valid_json

\* Exactly one issue: MEDIUM, source AI, the first 200 characters as message.
IsFallbackIssue(parsed, response) ==
    /\ parsed.is_list
    /\ Len(parsed.items) = 1
    /\ parsed.items[1].severity = "MEDIUM"
    /\ parsed.items[1].source = "AI"
    /\ parsed.items[1].message.of = "response"
    /\ parsed.items[1].message.chars =
          (IF response.length <= 200 THEN response.length ELSE 200)

\* Exactly the elements of the object's issues array, none when the key is
\* absent.
IsIssuesArray(parsed, response) ==
    IF response.has_issues
    THEN /\ Len(parsed.items) = Len(response.issues.items)
         /\ \A i \in 1..Len(parsed.items) :
               \A key \in DOMAIN response.issues.items[i] :
                   parsed.items[i][key] = response.issues.items[i][key]
    ELSE parsed = PyList(<<>>)

\* C23 as stated: a response that is not a JSON object yields exactly one
\* MEDIUM issue with source AI and the first 200 characters of the response
\* as message; a JSON object yields the elements of its issues array.
C23_NonJsonGivesOneIssue ==
    \A p \in ParsedResponses :
        LET parsed == _parse_ai_response(p[1], p[2])
        IN IF IsJsonObject(p[1])
           THEN (p[1].has_issues => p[1].issues.is_list) => IsIssuesArray(parsed, p[1])
           ELSE IsFallbackIssue(parsed, p[1])

\* C23 amended: a response that does not start with '{' yields that one
\* issue, a response that starts with '{' and is not valid JSON yields no
\* issue, and a JSON object yields the elements of its issues array.
C23_NonBraceGivesOneIssue ==
    \A p \in ParsedResponses :
        LET parsed == _parse_ai_response(p[1], p[2])
        IN IF ~p[1].starts_brace
           THEN IsFallbackIssue(parsed, p[1]) /\ parsed.items[1].type = p[2]
           ELSE IF ~p[1].valid_json
                THEN parsed = PyList(<<>>)
                ELSE (p[1].has_issues => p[1].issues.is_list)
                        => IsIssuesArray(parsed, p[1])

\* C23 witness: one file for which the quality prompt was answered with
\* more than 200 characters of prose and the security prompt with text that
\* starts with '{' and is not valid JSON.
C23_Witness ==
    /\ position > 0
    /\ met.quality_ai = Returned(Prose)
    /\ Prose.length > 200
    /\ met.security_ai = Returned(BrokenJson)
    /\ \E j \in 1..Len(LatestResult.quality_issues) :
          /\ LatestResult.quality_issues[j].source = "AI"
          /\ LatestResult.quality_issues[j].message.chars = 200

\* C26: review_code never propagates an exception to its caller, and a
\* session returned with a top-level error after some files were processed
\* has files_reviewed equal to the length of files and issues_found equal
\* to the sum of the lengths of their issues lists.
C26_NoExceptionReachesTheCaller ==
    /\ pc # "interrupted"
    /\ (SessionReturned /\ HasError /\ NFiles > 0)
          => /\ results.files_reviewed = NFiles
             /\ results.issues_found = IssuesIn(Files)

----------------------------------------------------------------------------
(* CodeAnalyzer: the structural pass of _analyze_python on one node of the *)
(* parsed tree.  Of a function definition the model keeps its kind         *)
(* (FunctionDef for def, AsyncFunctionDef for async def), its name, its    *)
(* first and last line, the number of nodes of each kind ast.walk finds    *)
(* under it (ifs: If, whiles: While, fors: For and AsyncFor, handlers:     *)
(* ExceptHandler), the number of operands of each BoolOp under it, and the *)
(* number of its positional parameters.                                    *)

\* self.complexity_threshold and self.max_function_length, at their defaults.
complexity_threshold == 10
max_function_length == 50

\* The most If nodes under a function and the most lines of a function.
MaxBranches == 12
MaxFunctionLines == 52

FunctionNode(kind, name, lineno, end_lineno, ifs, whiles, fors, handlers, bool_ops, args) ==
    [kind |-> kind, name |-> name, lineno |-> lineno, end_lineno |-> end_lineno,
     ifs |-> ifs, whiles |-> whiles, fors |-> fors, handlers |-> handlers,
     bool_ops |-> bool_ops, args |-> args]

ClassNode(name, lineno, has_docstring) ==
    [kind |-> "ClassDef", name |-> name, lineno |-> lineno,
     has_docstring |-> has_docstring]

\* The operands of the boolean expressions of a function: none, a and b,
\* a or b or c, and both.
BoolOps == {<<>>, <<2>>, <<3>>, <<2, 3>>}

\* The lines of a function far below the length threshold.
ShortFunction == 30

\* Functions around the two thresholds, and classes.
Nodes ==
    {FunctionNode(kind, name, lineno, lineno + lines - 1, ifs, whiles, fors, handlers,
                  bool_ops, args) :
        kind \in {"FunctionDef", "AsyncFunctionDef"}, name \in {"load", "save"},
        lineno \in {1, 7}, lines \in {ShortFunction} \cup ((MaxFunctionLines - 3)..MaxFunctionLines),
        ifs \in {0} \cup ((MaxBranches - 3)..MaxBranches),
        whiles \in 0..1, fors \in 0..1, handlers \in 0..1,
        bool_ops \in BoolOps, args \in {5, 6}}
      \cup {ClassNode(name, lineno, has_docstring) :
              name \in {"Store"}, lineno \in {1, 7}, has_docstring \in BOOLEAN}

\* _calculate_complexity
_calculate_complexity(n) ==
    1 + n.ifs + n.whiles + n.fors + n.handlers
      + SumSeq([i \in 1..Len(n.bool_ops) |-> n.bool_ops[i] - 1])

\* A CodeIssue of the structural pass: its message names the node, and it
\* carries the node's first line.
NodeIssue(severity, rule, n, value, file_path) ==
    CodeIssue("quality", severity, [rule |-> rule, name |-> n.name, value |-> value],
              Some(n.lineno), None, file_path, "quality_static")

\* _analyze_python_function: length, then complexity, then parameters.
_analyze_python_function(n, file_path) ==
    LET function_length == n.end_lineno - n.lineno
        complexity == _calculate_complexity(n)
    IN (IF function_length > max_function_length
        THEN << NodeIssue("MEDIUM", "too long", n, function_length, file_path) >>
        ELSE <<>>)
       \o (IF complexity > complexity_threshold
           THEN << NodeIssue("MEDIUM", "high complexity", n, complexity, file_path) >>
           ELSE <<>>)
       \o (IF n.args > 5
           THEN << NodeIssue("LOW", "many parameters", n, n.args, file_path) >>
           ELSE <<>>)

\* _analyze_python_class: a class without a docstring.
_analyze_python_class(n, file_path) ==
    IF ~n.has_docstring
    THEN << NodeIssue("LOW", "missing docstring", n, 0, file_path) >>
    ELSE <<>>

\* One turn of the loop over ast.walk(tree) in _analyze_python: functions
\* are the instances of ast.FunctionDef, which an async def is not.
VisitNode ==
    /\ node # NoNode
    /\ function_issues = None
    /\ function_issues' =
          Some(IF node.kind = "FunctionDef" THEN _analyze_python_function(node, 1)
               ELSE IF node.kind = "ClassDef" THEN _analyze_python_class(node, 1)
               ELSE <<>>)
    /\ UNCHANGED <<node, web_vars, config, path_is_file, fs, pc, files_to_review,
                   position, results, met, recent_results, earlier>>

\* No review under way.
PipelineIdle ==
    /\ config = Full
    /\ path_is_file = FALSE
    /\ fs = <<>>
    /\ pc = "idle"
    /\ files_to_review = <<>>
    /\ position = 0
    /\ results = NewResults
    /\ met = NothingMet
    /\ earlier = <<>>

AnalyzerInit ==
    /\ PipelineIdle
    /\ recent_results = <<>>
    /\ WebIdle
    /\ node \in Nodes
    /\ function_issues = None

AnalyzerNext == VisitNode

AnalyzerSpec == AnalyzerInit /\ [][AnalyzerNext]_vars

IsFunction(n) == n.kind \in {"FunctionDef", "AsyncFunctionDef"}

IssuesOfRule(issues, rule) == SelectSeq(issues, LAMBDA issue : issue.message.rule = rule)

\* C24: a function's complexity is 1 + its if, while, for and
\* except-handler constructs + the operands minus 1 of each of its boolean
\* expressions, and the walk emits exactly one MEDIUM complexity issue
\* naming the function when that value is strictly greater than the
\* threshold and none otherwise.
C24_ComplexityIssueIffAboveThreshold ==
    (function_issues # None /\ IsFunction(node)) =>
        LET value == 1 + node.ifs + node.whiles + node.fors + node.handlers
                       + SumSeq([i \in 1..Len(node.bool_ops) |-> node.bool_ops[i] - 1])
            found == IssuesOfRule(function_issues[1], "high complexity")
        IN IF value > complexity_threshold
           THEN /\ Len(found) = 1
                /\ found[1].severity = "MEDIUM"
                /\ found[1].message.name = node.name
                /\ found[1].message.value = value
           ELSE found = <<>>

\* The number of source lines from a function's first to its last line.
LineSpan(n) == n.end_lineno - n.lineno + 1

\* C25: a function whose line span, first and last line included, exceeds
\* max_function_length gets one MEDIUM function-length issue, and a
\* function whose span is at most the threshold gets none.
C25_LengthIssueIffSpanAboveThreshold ==
    (function_issues # None /\ IsFunction(node)) =>
        LET found == IssuesOfRule(function_issues[1], "too long")
        IN IF LineSpan(node) > max_function_length
           THEN Len(found) = 1 /\ found[1].severity = "MEDIUM"
           ELSE found = <<>>

----------------------------------------------------------------------------
(* WebInterface: POST /api/scan starts one thread per scan, and the thread *)
(* runs run_scan: review_code, then _store_results on the dict it got.     *)
(* The threads share self.recent_results and _store_results takes no lock. *)
(* A thread is taken to run from the assignment of the id to the append    *)
(* without another thread in between; it may be preempted before the test  *)
(* of the length, before the slice is taken, and between the evaluation of *)
(* the slice and its assignment to self.recent_results.  A session dict is *)
(* abstracted to the timestamp and the id _store_results gives it, the     *)
(* timestamp being the number of results appended so far.                  *)

\* The dict of a scan as _store_results appends it.
Stored(timestamp, id) == [timestamp |-> timestamp, id |-> id]

\* scan_code: 400 without a path, else a thread is started on run_scan.
scan_code(t, path) ==
    /\ scans < MaxScans
    /\ threads[t] = NoThread
    /\ IF path = ""
       THEN /\ http_response' = Answer("scan_code", None, 400, None)
            /\ UNCHANGED <<threads, scans>>
       ELSE /\ http_response' = Answer("scan_code", None, 200, None)
            /\ scans' = scans + 1
            /\ threads' = [threads EXCEPT ![t] = [pc |-> "review_code", sliced |-> <<>>]]
    /\ UNCHANGED <<recent_results, clock>>
    /\ UNCHANGED <<analyzer_vars, config, path_is_file, fs, pc, files_to_review,
                   position, results, met, earlier>>

\* run_scan up to the append of _store_results: review_code returns,
\* results['id'] = len(self.recent_results), the timestamp, and
\* self.recent_results.append(results).
run_scan(t) ==
    /\ threads[t].pc = "review_code"
    /\ recent_results' = Append(recent_results,
                                Stored(clock + 1, Len(recent_results)))
    /\ clock' = clock + 1
    /\ threads' = [threads EXCEPT ![t].pc = "check"]
    /\ UNCHANGED <<scans, http_response>>
    /\ UNCHANGED <<analyzer_vars, config, path_is_file, fs, pc, files_to_review,
                   position, results, met, earlier>>

\* _store_results: if len(self.recent_results) > self.max_recent_results;
\* when not, _store_results and the thread end.
StoreCheck(t) ==
    /\ threads[t].pc = "check"
    /\ threads' = [threads EXCEPT
                      ![t] = IF Len(recent_results) > max_recent_results
                             THEN [threads[t] EXCEPT !.pc = "slice"]
                             ELSE NoThread]
    /\ UNCHANGED <<recent_results, scans, clock, http_response>>
    /\ UNCHANGED <<analyzer_vars, config, path_is_file, fs, pc, files_to_review,
                   position, results, met, earlier>>

\* s[-n:]
Last(s, n) == IF Len(s) > n THEN SubSeq(s, Len(s) - n + 1, Len(s)) ELSE s

\* _store_results: the right-hand side
\* self.recent_results[-self.max_recent_results:], a new list.
StoreSlice(t) ==
    /\ threads[t].pc = "slice"
    /\ threads' = [threads EXCEPT ![t].sliced = Last(recent_results, max_recent_results),
                                  ![t].pc = "assign"]
    /\ UNCHANGED <<recent_results, scans, clock, http_response>>
    /\ UNCHANGED <<analyzer_vars, config, path_is_file, fs, pc, files_to_review,
                   position, results, met, earlier>>

\* _store_results: self.recent_results = <the new list>; the thread ends.
StoreAssign(t) ==
    /\ threads[t].pc = "assign"
    /\ recent_results' = threads[t].sliced
    /\ threads' = [threads EXCEPT ![t] = NoThread]
    /\ UNCHANGED <<scans, clock, http_response>>
    /\ UNCHANGED <<analyzer_vars, config, path_is_file, fs, pc, files_to_review,
                   position, results, met, earlier>>

\* self.recent_results[result_id] of Python: counted from the end when
\* result_id is negative, IndexError when out of range.
InRange(s, result_id) == -Len(s) <= result_id /\ result_id < Len(s)
Item(s, result_id) ==
    IF result_id >= 0 THEN s[result_id + 1] ELSE s[Len(s) + result_id + 1]

\* get_result: GET /api/results/<int:result_id>; the route takes no sign.
get_result(result_id) ==
    /\ http_response' =
          IF 0 <= result_id /\ result_id < Len(recent_results)
          THEN Answer("get_result", Some(result_id), 200,
                      Some(Item(recent_results, result_id)))
          ELSE Answer("get_result", Some(result_id), 404, None)
    /\ UNCHANGED <<recent_results, threads, scans, clock>>
    /\ UNCHANGED <<analyzer_vars, config, path_is_file, fs, pc, files_to_review,
                   position, results, met, earlier>>

\* generate_report: POST /api/reports/generate with result_id None (the
\* key is missing) or Some(number): 400 'Invalid result ID', the reports of
\* the indexed dict, or 500 when the indexing raises.
generate_report(result_id) ==
    /\ http_response' =
          IF result_id = None \/ result_id[1] >= Len(recent_results)
          THEN Answer("generate_report", result_id, 400, None)
          ELSE IF InRange(recent_results, result_id[1])
               THEN Answer("generate_report", result_id, 200,
                           Some(Item(recent_results, result_id[1])))
               ELSE Answer("generate_report", result_id, 500, None)
    /\ UNCHANGED <<recent_results, threads, scans, clock>>
    /\ UNCHANGED <<analyzer_vars, config, path_is_file, fs, pc, files_to_review,
                   position, results, met, earlier>>

\* The result ids of the requests.
ResultIds == {0, max_recent_results - 1, max_recent_results}
ReportIds == {None} \cup {Some(i) : i \in {-1} \cup ResultIds}

WebInit ==
    /\ PipelineIdle
    /\ AnalyzerIdle
    /\ recent_results = <<>>
    /\ WebIdle

WebNext ==
    \/ \E t \in 1..MaxThreads :
          \/ \E path \in {"", "src"} : scan_code(t, path)
          \/ run_scan(t)
          \/ StoreCheck(t)
          \/ StoreSlice(t)
          \/ StoreAssign(t)
    \/ \E result_id \in ResultIds : get_result(result_id)
    \/ \E result_id \in ReportIds : generate_report(result_id)

WebSpec == WebInit /\ [][WebNext]_vars

\* C27: GET /api/results/<id> answers not-found or a result whose id field
\* equals <id>, and no two entries of recent_results carry the same id.
C27_GetResultAnswersTheAskedId ==
    /\ http_response.handler = "get_result"
          => \/ http_response.status = 404
             \/ http_response.body[1].id = http_response.result_id[1]
    /\ \A i, j \in 1..Len(recent_results) :
          i # j => recent_results[i].id # recent_results[j].id

\* The results appended so far are those with the timestamps 1..clock.
IsRetained(timestamp) ==
    \E i \in 1..Len(recent_results) : recent_results[i].timestamp = timestamp

\* C28: under every interleaving of the scan threads, a stored result is
\* missing from recent_results only when at least max_recent_results
\* results were stored after it.
C28_OnlyOldResultsAreDropped ==
    \A timestamp \in 1..clock :
        ~IsRetained(timestamp) => clock - timestamp >= max_recent_results

\* No thread is inside _store_results.
NoStoreUnderWay ==
    \A t \in 1..MaxThreads : threads[t].pc \in {"none", "review_code"}

\* C29: once the stores have completed, recent_results holds at most
\* max_recent_results entries, and they are the most recently stored
\* results in store order.
C29_HoldsTheLatestResultsInOrder ==
    NoStoreUnderWay =>
        /\ Len(recent_results) <= max_recent_results
        /\ \A i \in 1..Len(recent_results) :
              recent_results[i].timestamp = clock - Len(recent_results) + i

\* C30: POST /api/reports/generate generates a report when result_id is an
\* index into recent_results, 0 <= result_id < number of stored results,
\* and answers 400 Invalid result ID for every other result_id: a missing
\* one, a negative one, one that is too large.
C30_ReportOnlyForValidIndex ==
    [][(http_response' # http_response /\ http_response'.handler = "generate_report")
          => LET result_id == http_response'.result_id
             IN IF result_id # None /\ 0 <= result_id[1]
                                    /\ result_id[1] < Len(recent_results)
                THEN /\ http_response'.status = 200
                     /\ http_response'.body = Some(recent_results[result_id[1] + 1])
                ELSE http_response'.status = 400]_vars

====
